---- MODULE Spec2Model ----
(***************************************************************************)
(* Model of RawTool (src/src/index.js), the raw-HTML block.                *)
(*                                                                         *)
(* First part: the script rehydration pass _executeScripts / runNext over  *)
(* a container's DOM subtree, together with the part of the document       *)
(* environment the pass talks to (element insertion, script preparation,   *)
(* load / error events). In Spec, FairSpec and SpecHostile the container   *)
(* is in the document, which is what _executeScripts is scheduled for. The *)
(* document behaves as the HTML standard says: a script element put into   *)
(* the document's tree by replaceChild runs at once if it has no src       *)
(* attribute, and otherwise gets exactly one of load (after its resource   *)
(* ran) or error, as a later task; a script put into a tree outside the    *)
(* document starts when that tree goes into the document.                  *)
(*                                                                         *)
(* Second part (ToolSpec): the tool around the pass, that is constructor,  *)
(* render, save, onInput and resize, with the timers they set, the host    *)
(* that puts the returned wrappers into the document and removes them, and *)
(* the user who edits the textarea. Every render() adds a view; the        *)
(* sub-node of a read-only view carries the state of its own pass.         *)
(*                                                                         *)
(* Indices: runNext's index is 0-based as in the source; TLA+ sequences    *)
(* are 1-based, so scripts[index] of the source is st.scripts[index + 1].  *)
(* "Script k" (k in 1..N) is the k-th script of the container in document  *)
(* order; its effect, when it executes, is to append k to the shared log.  *)
(***************************************************************************)
EXTENDS Integers, Sequences, FiniteSets, TLC

\* ------------------------------------------------------------------ bounds
\* Largest number of top-level items of the container's markup.
MaxTop == 3
\* Largest number of _executeScripts calls made on the container.
MaxCalls == 2

VARIABLES
    nodes,          \* node id -> [tag, attrs, text, onload, onerror, parserInserted, started]
    kids,           \* element id -> sequence of its child ids (container and divs)
    nextId,         \* id the next document.createElement returns
    scripts,        \* the array collected by the current pass (node ids)
    pc,             \* "empty" | "idle" | "waiting" | "done" | "thrown": position of the pass
    calls,          \* the indices runNext was invoked with in the current pass
    repl,           \* repl[i]: the replacement the current pass swapped in for scripts[i]
    pending,        \* replacements whose load / error event is still to be delivered
    loaded,         \* replacements of the current pass whose load event was delivered
    errored,        \* replacements of the current pass whose error event was delivered
    log,            \* shared execution log of the current pass: script positions
    earlier,        \* number of script executions of the passes before it
    err,            \* "none" | "caller" | "eventloop": where a TypeError surfaced
    passNo,         \* number of _executeScripts calls so far
    initial,        \* the container as parsed: [nodes, kids]
    \* the tool around the pass (constructor, render, save, onInput, resize)
    readOnly,       \* this.readOnly
    data,           \* this.data: [html |-> a JavaScript value]
    textarea,       \* this.textarea: the view whose textarea it is, 0 for null
    resizeDebounce, \* this.resizeDebounce: a timer id, 0 for null
    views,          \* the wrappers render() returned, in order
    timers,         \* the pending setTimeout timers
    nextTimer,      \* id the next setTimeout returns
    inputs          \* number of input events so far

passVars == <<nodes, kids, nextId, scripts, pc, calls, repl, pending, loaded,
              errored, log, earlier, err, passNo, initial>>

toolVars == <<readOnly, data, textarea, resizeDebounce, views, timers,
              nextTimer, inputs>>

vars == <<passVars, toolVars>>

\* The container element handed to _executeScripts.
container == 0

\* ------------------------------------------------------------- attributes
\* An element's attribute list: a sequence of [name, value], names unique.
NoAttrs == << >>

Attr(n, v) == [name |-> n, value |-> v]

HasAttribute(attrs, n) == \E i \in 1..Len(attrs) : attrs[i].name = n

GetAttribute(attrs, n) ==
    attrs[CHOOSE i \in 1..Len(attrs) : attrs[i].name = n].value

\* element.setAttribute(name, value): overwrite in place or append.
SetAttribute(attrs, n, v) ==
    IF HasAttribute(attrs, n)
    THEN [i \in 1..Len(attrs) |->
            IF attrs[i].name = n THEN Attr(n, v) ELSE attrs[i]]
    ELSE Append(attrs, Attr(n, v))

\* Array.from(oldScript.attributes).forEach(attr => newScript.setAttribute(...)),
\* the loop run over the attributes old[from..], onto the list acc (the
\* list after one setAttribute is bound as a, so that it is computed once).
RECURSIVE CopyLoop(_, _, _)
CopyLoop(old, from, acc) ==
    IF from > Len(old) THEN acc
    ELSE CHOOSE r \in
           {CopyLoop(old, from + 1, a) :
              a \in {SetAttribute(acc, old[from].name, old[from].value)}} : TRUE

\* A copy that drops the source-location and event-handler attributes.
CopyAttributesFiltered(old) ==
    SelectSeq(CopyLoop(old, 1, NoAttrs),
              LAMBDA a : a.name \notin {"src", "onload", "onerror"})

CopyAttributes(old) == CopyLoop(old, 1, NoAttrs)

\* The document's base URL, against which src attributes are resolved.
BaseUrl == "http://host/"

\* A src property that is always empty.
SrcPropertyNever(attrs) == ""

\* A src property that is the raw attribute value.
SrcPropertyRaw(attrs) ==
    IF HasAttribute(attrs, "src") THEN GetAttribute(attrs, "src") ELSE ""

\* newScript.src: "" when the src attribute is absent, else the attribute's
\* value resolved against the document's base URL (an empty value resolves
\* to the base URL itself).
SrcProperty(attrs) ==
    IF HasAttribute(attrs, "src")
    THEN BaseUrl \o GetAttribute(attrs, "src")
    ELSE ""

\* -------------------------------------------------------------------- DOM
Range(s) == {s[i] : i \in 1..Len(s)}

\* The elements whose child list holds n: empty when n.parentNode is null.
Parents(k, n) == {p \in DOMAIN k : n \in Range(k[p])}

ParentNode(k, n) == CHOOSE p \in Parents(k, n) : TRUE

\* Whether n is in the container's tree (the container is in the document).
RECURSIVE Connected(_, _)
Connected(k, n) ==
    \/ n = container
    \/ /\ Parents(k, n) # {}
       /\ Connected(k, ParentNode(k, n))

\* The nodes below the child list s, in pre-order (document order).
RECURSIVE PreOrder(_, _)
PreOrder(k, s) ==
    IF s = << >> THEN << >>
    ELSE LET c == Head(s)
         IN  <<c>> \o (IF c \in DOMAIN k THEN PreOrder(k, k[c]) ELSE << >>)
                   \o PreOrder(k, Tail(s))

\* A collection that takes every element, script or not.
QuerySelectorAllAny(k, nd, root) == PreOrder(k, k[root])

\* A collection that skips the scripts an earlier pass created.
QuerySelectorAllOnce(k, nd, root) ==
    SelectSeq(PreOrder(k, k[root]),
              LAMBDA c : nd[c].tag = "script" /\ nd[c].parserInserted)

\* Array.from(container.querySelectorAll('script'))
QuerySelectorAll(k, nd, root) ==
    SelectSeq(PreOrder(k, k[root]), LAMBDA c : nd[c].tag = "script")

\* A swap that removes the old child and appends the new one at the end.
ReplaceChildAtEnd(k, p, new, old) ==
    [k EXCEPT ![p] = Append(SelectSeq(k[p], LAMBDA c : c # old), new)]

\* parent.replaceChild(new, old): new takes old's place in the child list.
ReplaceChild(k, p, new, old) ==
    [k EXCEPT ![p] = [i \in 1..Len(k[p]) |-> IF k[p][i] = old THEN new ELSE k[p][i]]]

\* ---------------------------------------------------------- script content
Digit == <<"1", "2", "3", "4", "5", "6", "7", "8">>

\* Inline source of script k: appends k to the shared log.
PushText(k) == "log.push(" \o Digit[k] \o ")"

\* Inline source of a script that empties the container, then logs k.
ClearText(k) == "container.textContent='';log.push(" \o Digit[k] \o ")"

\* Address of the external resource of script k; once loaded it logs k.
Url(k) == "s" \o Digit[k] \o ".js"

Programs == 1..Len(Digit)

\* Run source text t as a script.
RunText(st, t) ==
    IF \E k \in Programs : t = PushText(k)
    THEN LET j == CHOOSE j \in Programs : t = PushText(j)
         IN  [st EXCEPT !.log = Append(@, j)]
    ELSE IF \E k \in Programs : t = ClearText(k)
    THEN LET j == CHOOSE j \in Programs : t = ClearText(j)
         IN  [st EXCEPT !.kids[container] = << >>,
                        !.log = Append(@, j)]
    ELSE st

\* Run the resource fetched from address u.
RunResource(st, u) ==
    IF \E k \in Programs : u = Url(k)
    THEN LET j == CHOOSE j \in Programs : u = Url(j)
         IN  [st EXCEPT !.log = Append(@, j)]
    ELSE st

\* A document that also runs scripts put into a tree outside the document.
PrepareScriptDetached(st, n) ==
    IF st.nodes[n].started THEN st
    ELSE CHOOSE r \in
           {IF HasAttribute(s1.nodes[n].attrs, "src")
            THEN [s1 EXCEPT !.pending = @ \cup {n}]
            ELSE RunText(s1, s1.nodes[n].text) :
              s1 \in {[st EXCEPT !.nodes[n].started = TRUE]}} : TRUE

\* What the document does with script element n once n is put in a tree:
\* nothing if n was started before or is not connected to the document
\* (the container's tree is in the document while st.live holds); else n is
\* marked started, and with a src attribute it waits for its load or error
\* event (an empty src only ever gets error) and its inline text is
\* ignored; otherwise the text runs at once.
PrepareScript(st, n) ==
    IF st.nodes[n].started \/ ~st.live \/ ~Connected(st.kids, n) THEN st
    ELSE CHOOSE r \in
           {IF HasAttribute(s1.nodes[n].attrs, "src")
            THEN [s1 EXCEPT !.pending = @ \cup {n}]
            ELSE RunText(s1, s1.nodes[n].text) :
              s1 \in {[st EXCEPT !.nodes[n].started = TRUE]}} : TRUE

\* ------------------------------------------------------------- the pass
\* No handler registered: an empty list; a registered handler () =>
\* runNext(i) is the list <<i>>.
NoHandler == << >>

\* document.createElement('script')
CreateScript == [tag |-> "script", attrs |-> NoAttrs, text |-> "",
                 onload |-> NoHandler, onerror |-> NoHandler,
                 parserInserted |-> FALSE, started |-> FALSE]

\* Handlers that leave onerror unset.
RegisterHandlersLoadOnly(el, index) ==
    IF SrcProperty(el.attrs) # ""
    THEN [el EXCEPT !.onload = <<index + 1>>]
    ELSE el

\* if (newScript.src) { newScript.onload = ...; newScript.onerror = ...; }
RegisterHandlers(el, index) ==
    IF SrcProperty(el.attrs) # ""
    THEN [el EXCEPT !.onload = <<index + 1>>, !.onerror = <<index + 1>>]
    ELSE el

\* An advance that never waits for an external script.
AdvancesNowAlways(el) == TRUE

\* if (!newScript.src) runNext(index + 1)
AdvancesNow(el) == SrcProperty(el.attrs) = ""

\* The replacement runNext builds for oldScript at position index.
NewScript(old, index) ==
    CHOOSE r \in
      {RegisterHandlers(el, index) :
         el \in {[CreateScript EXCEPT !.attrs = CopyAttributes(old.attrs),
                                     !.text = old.text]}} : TRUE

\* runNext(index), run to the point where control returns to the event
\* loop: past the end of the array, at an external script, or at a
\* TypeError (oldScript.parentNode is null). st holds the state it acts on.
\* s1 is the state once newScript is built (lines 188-200), s2 the state
\* after replaceChild (line 202), s3 the state once the document has
\* prepared the inserted script. Each is bound over a one-element set, so
\* that it is computed once.
RECURSIVE RunNext(_, _)
RunNext(st, index) ==
    IF index >= Len(st.scripts)
    THEN [st EXCEPT !.calls = Append(@, index), !.pc = "done"]
    ELSE
      LET oldScript == st.scripts[index + 1]
          newId     == st.nextId
          built     == {[st EXCEPT
                           !.calls = Append(@, index),
                           !.nodes = (newId :> NewScript(@[oldScript], index)) @@ @,
                           !.nextId = @ + 1]}
          Swapped(s1) == [s1 EXCEPT
                            !.kids = ReplaceChild(@, ParentNode(@, oldScript),
                                                  newId, oldScript),
                            !.repl = Append(@, newId)]
      IN
      IF Parents(st.kids, oldScript) = {}
      THEN CHOOSE r \in {[s1 EXCEPT !.pc = "thrown", !.err = st.ctx] :
                           s1 \in built} : TRUE
      ELSE CHOOSE r \in
             {IF AdvancesNow(s3.nodes[newId])
              THEN RunNext(s3, index + 1)
              ELSE [s3 EXCEPT !.pc = "waiting"] :
                s3 \in {PrepareScript(s2, newId) :
                          s2 \in {Swapped(s1) : s1 \in built}}} : TRUE

\* The state the handlers act on (its container is in the document), and
\* how their result is stored.
Current(ctx) ==
    [nodes |-> nodes, kids |-> kids, nextId |-> nextId, scripts |-> scripts,
     pc |-> pc, calls |-> calls, repl |-> repl, pending |-> pending,
     log |-> log, err |-> err, ctx |-> ctx, live |-> TRUE]

Store(st) ==
    /\ nodes' = st.nodes
    /\ kids' = st.kids
    /\ nextId' = st.nextId
    /\ scripts' = st.scripts
    /\ pc' = st.pc
    /\ calls' = st.calls
    /\ repl' = st.repl
    /\ pending' = st.pending
    /\ log' = st.log
    /\ err' = st.err

\* The body of _executeScripts(container) on the state st: collect the
\* scripts, then runNext(0).
StartPass(st) ==
    CHOOSE r \in
      {RunNext(s0, 0) :
         s0 \in {[st EXCEPT
                    !.scripts = QuerySelectorAll(st.kids, st.nodes, container),
                    !.calls = << >>, !.repl = << >>, !.log = << >>]}} : TRUE

\* _executeScripts(container), called while no pass is in flight.
ExecuteScripts ==
    /\ passNo < MaxCalls
    /\ pc \in {"idle", "done", "thrown"}
    /\ passNo' = passNo + 1
    /\ \E r \in {StartPass(Current("caller"))} : Store(r)
    /\ earlier' = earlier + Len(log)
    /\ loaded' = {}
    /\ errored' = {}
    /\ UNCHANGED <<initial, toolVars>>

\* The handler list h fired in the event loop.
Fire(st, h) ==
    IF h = NoHandler THEN st
    ELSE CHOOSE r \in {RunNext(x, h[1]) : x \in {st}} : TRUE

\* The external resource of n has arrived: it runs, then the load event
\* fires on n.
DeliverLoad(st, n) ==
    CHOOSE r \in
      {Fire(RunResource(s1, GetAttribute(st.nodes[n].attrs, "src")),
            st.nodes[n].onload) :
         s1 \in {[st EXCEPT !.pending = @ \ {n}]}} : TRUE

\* The fetch of n has failed: nothing runs, the error event fires on n.
DeliverError(st, n) ==
    CHOOSE r \in
      {Fire(s1, st.nodes[n].onerror) :
         s1 \in {[st EXCEPT !.pending = @ \ {n}]}} : TRUE

\* The external resource of replacement n arrives: it runs, then the load
\* event fires on n.
OnLoad(n) ==
    /\ n \in pending
    /\ GetAttribute(nodes[n].attrs, "src") # ""
    /\ loaded' = loaded \cup {n}
    /\ \E r \in {DeliverLoad(Current("eventloop"), n)} : Store(r)
    /\ UNCHANGED <<errored, earlier, passNo, initial, toolVars>>

\* The fetch of replacement n fails (or its src is empty): nothing runs,
\* the error event fires on n.
OnError(n) ==
    /\ n \in pending
    /\ errored' = errored \cup {n}
    /\ \E r \in {DeliverError(Current("eventloop"), n)} : Store(r)
    /\ UNCHANGED <<loaded, earlier, passNo, initial, toolVars>>

Load == \E n \in pending : OnLoad(n)

Error == \E n \in pending : OnError(n)

\* ------------------------------------------------------ the parsed markup
\* Kinds of script the markup may hold. k is the script's position among
\* the container's scripts in document order.
VariantAttrs(v, k) ==
    CASE v = "inlineData" -> <<Attr("data-x", "1"), Attr("data-y", "2")>>
      [] v = "ext"        -> <<Attr("src", Url(k))>>
      [] v = "extFull"    -> <<Attr("src", Url(k)), Attr("defer", ""),
                               Attr("onload", "h()")>>
      [] v = "emptySrc"   -> <<Attr("src", "")>>
      [] OTHER            -> NoAttrs

VariantText(v, k) ==
    CASE v \in {"inline", "inlineData", "emptySrc"} -> PushText(k)
      [] v = "extFull" -> "ignored"
      [] v = "clear"   -> ClearText(k)
      [] OTHER         -> ""

\* The items of the markup: a paragraph, a script, or a div holding a script.
Item(tag, v, wrap) == [tag |-> tag, v |-> v, wrap |-> wrap]

BenignItems ==
    {Item("p", "none", FALSE)}
    \cup {Item("script", v, FALSE) :
            v \in {"inline", "inlineData", "extFull", "emptySrc"}}
    \cup {Item("script", v, TRUE) : v \in {"inline", "ext"}}

HostileItems == BenignItems \cup {Item("script", "clear", FALSE)}

Markups(items) == UNION {[1..m -> items] : m \in 0..MaxTop}

\* Position in document order of the script of item i.
ScriptIndex(shape, i) == Cardinality({j \in 1..i : shape[j].tag = "script"})

\* An element the markup parser creates; a script it creates is marked as
\* started already, so it never runs.
Element(tag, attrs, text) ==
    [tag |-> tag, attrs |-> attrs, text |-> text, onload |-> NoHandler,
     onerror |-> NoHandler, parserInserted |-> TRUE, started |-> TRUE]

\* c.innerHTML = markup: the tree the parser builds below the container.
\* Item i is node i; the script of a wrapped item i is node Len(shape) + i.
ParseMarkup(shape) ==
    LET m == Len(shape)
        wrapped == {i \in 1..m : shape[i].wrap}
        scriptOf(i) == Element("script",
                               VariantAttrs(shape[i].v, ScriptIndex(shape, i)),
                               VariantText(shape[i].v, ScriptIndex(shape, i)))
    IN  [nodes |->
           [n \in {container} \cup (1..m) \cup {m + i : i \in wrapped} |->
              IF n = container THEN Element("div", NoAttrs, "")
              ELSE IF n > m THEN scriptOf(n - m)
              ELSE IF shape[n].tag = "#text"
                   THEN Element("#text", NoAttrs, shape[n].v)
              ELSE IF shape[n].tag = "p" THEN Element("p", NoAttrs, "hi")
              ELSE IF shape[n].wrap THEN Element("div", NoAttrs, "")
              ELSE scriptOf(n)],
         kids |->
           [n \in {container} \cup wrapped |->
              IF n = container THEN [i \in 1..m |-> i]
              ELSE <<m + n>>]]

\* ------------------------------------------------------ JavaScript values
\* The values data.html may hold: a string is the list of its pieces, each
\* a character or the text of one element of markup (an Item); the other
\* types carry their number or nothing.
Str(c) == [type |-> "string", chars |-> c, num |-> 0]

Num(n) == [type |-> "number", chars |-> << >>, num |-> n]

Undefined == [type |-> "undefined", chars |-> << >>, num |-> 0]

Null == [type |-> "null", chars |-> << >>, num |-> 0]

\* One character of text.
Char(ch) == Item("#text", ch, FALSE)

\* ToBoolean(v)
Truthy(v) ==
    CASE v.type = "string" -> v.chars # << >>
      [] v.type = "number" -> v.num # 0
      [] OTHER             -> FALSE

\* a || b
OrElse(a, b) == IF Truthy(a) THEN a ELSE b

\* The string the textContent and innerHTML setters make of v (both turn
\* null into the empty string).
ToDOMString(v) ==
    CASE v.type = "string" -> v.chars
      [] v.type = "number" -> <<Char(IF v.num = 0 THEN "0" ELSE Digit[v.num])>>
      [] v.type = "null"   -> << >>
      [] OTHER             -> <<Char("undefined")>>

\* ------------------------------------------------------------ the textarea
\* textarea.value: the raw value with newlines normalised, every CR LF
\* pair and every other CR replaced by one LF.
RECURSIVE ApiValue(_)
ApiValue(raw) ==
    IF raw = << >> THEN << >>
    ELSE IF Head(raw) = Char("\r")
    THEN <<Char("\n")>> \o
           (IF Len(raw) >= 2 /\ raw[2] = Char("\n")
            THEN ApiValue(Tail(Tail(raw)))
            ELSE ApiValue(Tail(raw)))
    ELSE <<Head(raw)>> \o ApiValue(Tail(raw))

\* The tokens the markup parser makes of a string: the input stream has its
\* newlines normalised, and a run of characters becomes one text node.
RECURSIVE Tokens(_)
Tokens(chars) ==
    LET c == ApiValue(chars)
    IN  IF Len(c) >= 2 /\ c[1].tag = "#text" /\ c[2].tag = "#text"
        THEN Tokens(<<Char(c[1].v \o c[2].v)>> \o Tail(Tail(c)))
        ELSE IF c = << >> THEN << >>
        ELSE <<Head(c)>> \o Tokens(Tail(c))

\* No tool constructed: the container stands alone.
NoTool ==
    /\ readOnly = TRUE
    /\ data = [html |-> Str(<< >>)]
    /\ textarea = 0
    /\ resizeDebounce = 0
    /\ views = << >>
    /\ timers = {}
    /\ nextTimer = 1
    /\ inputs = 0

\* c = document.createElement('div'): an empty container, no pass started.
PassInit ==
    /\ initial = [nodes |-> (container :> Element("div", NoAttrs, "")),
                  kids |-> (container :> << >>)]
    /\ nodes = initial.nodes
    /\ kids = initial.kids
    /\ nextId = 1
    /\ scripts = << >>
    /\ pc = "empty"
    /\ calls = << >>
    /\ repl = << >>
    /\ pending = {}
    /\ loaded = {}
    /\ errored = {}
    /\ log = << >>
    /\ earlier = 0
    /\ err = "none"
    /\ passNo = 0

Init == NoTool /\ PassInit

\* c.innerHTML = this.data.html, for a markup made of the given items.
SetInnerHTML(items) ==
    /\ pc = "empty"
    /\ \E shape \in Markups(items) :
         /\ initial' = ParseMarkup(shape)
         /\ nodes' = initial'.nodes
         /\ kids' = initial'.kids
         /\ nextId' = 2 * Len(shape) + 1
    /\ pc' = "idle"
    /\ UNCHANGED <<scripts, calls, repl, pending, loaded, errored, log,
                   earlier, err, passNo, toolVars>>

\* Markup whose scripts only log their own position.
Parse == SetInnerHTML(BenignItems)

\* Markup whose scripts may also empty the container.
ParseHostile == SetInnerHTML(HostileItems)

Next == Parse \/ ExecuteScripts \/ Load \/ Error

Spec == Init /\ [][Next]_vars

\* The event loop delivers every pending load / error event.
FairSpec == Spec /\ WF_vars(Load \/ Error)

NextHostile == ParseHostile \/ ExecuteScripts \/ Load \/ Error

SpecHostile == Init /\ [][NextHostile]_vars

\* ================================================================ the tool
\* Largest number of render() calls on one tool.
MaxRenders == 2
\* Largest number of input events on the tool's textareas.
MaxInputs == 2

\* const renderingTime = 100
renderingTime == 100

\* The delay of onInput's timer.
debounceTime == 200

\* The strings the tool is constructed with and the user types.
Documents ==
    { << >>,
      <<Char("a"), Char("\r"), Char("\n"), Char("b")>>,
      <<Item("p", "none", FALSE), Item("script", "inline", FALSE),
        Item("script", "ext", TRUE), Item("script", "inline", FALSE),
        Item("script", "emptySrc", FALSE)>> }

Edits ==
    { <<Char("x")>>,
      <<Char("x"), Char("\n"), Item("script", "inline", FALSE)>> }

\* The data argument of the constructor: html absent, or a value.
DataInputs ==
    {[html |-> v] : v \in {Undefined, Null, Num(0), Num(7)}
                          \cup {Str(d) : d \in Documents}}

\* constructor({ data, config, api, readOnly })
Constructor(d, ro) ==
    /\ readOnly = ro
    /\ data = [html |-> OrElse(d.html, Str(<< >>))]
    /\ textarea = 0
    /\ resizeDebounce = 0

\* setTimeout(fn, delay) called by the named method for the view v.
Timer(id, fn, by, v, delay) ==
    [id |-> id, fn |-> fn, by |-> by, view |-> v, delay |-> delay]

\* A pending timer may fire once no timer set before it with a delay no
\* longer than its own is pending.
Runnable(t) ==
    /\ t \in timers
    /\ \A u \in timers : ~(u.id < t.id /\ u.delay <= t.delay)

\* style.height not set.
NoHeight == ""

\* The textarea render() builds: its child text is the stored markup, and
\* so is its raw value as long as the user has not edited it (dirty); it
\* takes input events in edit mode only.
NewTextarea ==
    [text |-> ToDOMString(data.html), raw |-> ToDOMString(data.html),
     dirty |-> FALSE, disabled |-> readOnly, hidden |-> readOnly, listener |-> ~readOnly,
     height |-> NoHeight]

\* const c = document.createElement('div'); c.innerHTML = markup: the tree
\* below c, no pass on it, c not in the document.
NewContainer(chars) ==
    CHOOSE r \in
      {[nodes |-> tree.nodes, kids |-> tree.kids,
        nextId |-> 2 * Len(Tokens(chars)) + 1, scripts |-> << >>,
        pc |-> "idle", calls |-> << >>, repl |-> << >>, pending |-> {},
        log |-> << >>, err |-> "none", ctx |-> "timer", live |-> FALSE,
        loaded |-> {}, errored |-> {}, passes |-> 0] :
         tree \in {ParseMarkup(Tokens(chars))}} : TRUE

\* A view without a sub-node.
NoContainer == [NewContainer(<< >>) EXCEPT !.pc = "none"]

\* A render() that runs the scripts itself.
RenderRunsScripts ==
    /\ Len(views) < MaxRenders
    /\ views' = Append(views,
                  [textarea |-> NewTextarea,
                   c |-> IF readOnly
                         THEN StartPass([NewContainer(ToDOMString(data.html))
                                           EXCEPT !.passes = 1])
                         ELSE NoContainer,
                   attached |-> "no"])
    /\ textarea' = Len(views) + 1
    /\ timers' = timers \cup
                   {Timer(nextTimer, "resize", "render", Len(views) + 1,
                          renderingTime)}
    /\ nextTimer' = nextTimer + 1
    /\ UNCHANGED <<readOnly, data, resizeDebounce, inputs, passVars>>

\* A render() that schedules every pass on the sub-node of the first view.
RenderSameNode ==
    /\ Len(views) < MaxRenders
    /\ views' = Append(views,
                  [textarea |-> NewTextarea,
                   c |-> IF readOnly
                         THEN NewContainer(ToDOMString(data.html))
                         ELSE NoContainer,
                   attached |-> "no"])
    /\ textarea' = Len(views) + 1
    /\ timers' = timers
         \cup (IF readOnly
               THEN {Timer(nextTimer, "executeScripts", "render", 1,
                           renderingTime)}
               ELSE {})
         \cup {Timer(IF readOnly THEN nextTimer + 1 ELSE nextTimer,
                     "resize", "render", Len(views) + 1, renderingTime)}
    /\ nextTimer' = IF readOnly THEN nextTimer + 2 ELSE nextTimer + 1
    /\ UNCHANGED <<readOnly, data, resizeDebounce, inputs, passVars>>

\* A render() that builds and schedules the sub-node in edit mode too.
RenderAnyMode ==
    /\ Len(views) < MaxRenders
    /\ views' = Append(views,
                  [textarea |-> NewTextarea,
                   c |-> NewContainer(ToDOMString(data.html)),
                   attached |-> "no"])
    /\ textarea' = Len(views) + 1
    /\ timers' = timers
         \cup {Timer(nextTimer, "executeScripts", "render",
                     Len(views) + 1, renderingTime)}
         \cup {Timer(nextTimer + 1, "resize", "render", Len(views) + 1,
                     renderingTime)}
    /\ nextTimer' = nextTimer + 2
    /\ UNCHANGED <<readOnly, data, resizeDebounce, inputs, passVars>>

\* render()
Render ==
    /\ Len(views) < MaxRenders
    /\ views' = Append(views,
                  [textarea |-> NewTextarea,
                   c |-> IF readOnly
                         THEN NewContainer(ToDOMString(data.html))
                         ELSE NoContainer,
                   attached |-> "no"])
    /\ textarea' = Len(views) + 1
    /\ timers' = timers
         \cup (IF readOnly
               THEN {Timer(nextTimer, "executeScripts", "render",
                           Len(views) + 1, renderingTime)}
               ELSE {})
         \cup {Timer(IF readOnly THEN nextTimer + 1 ELSE nextTimer,
                     "resize", "render", Len(views) + 1, renderingTime)}
    /\ nextTimer' = IF readOnly THEN nextTimer + 2 ELSE nextTimer + 1
    /\ UNCHANGED <<readOnly, data, resizeDebounce, inputs, passVars>>

\* The wrapper of view v goes into the document: the scripts below it that
\* have not started are prepared, in document order.
RECURSIVE PrepareAll(_, _)
PrepareAll(st, s) ==
    IF s = << >> THEN st
    ELSE CHOOSE r \in
           {PrepareAll(s1, Tail(s)) :
              s1 \in {IF st.nodes[Head(s)].tag = "script"
                      THEN PrepareScript(st, Head(s)) ELSE st}} : TRUE

Adopt(st) ==
    PrepareAll([st EXCEPT !.live = TRUE, !.ctx = "host"],
               PreOrder(st.kids, st.kids[container]))

\* The host appends the wrapper render() returned to the document.
Attach(v) ==
    /\ views[v].attached = "no"
    /\ views' = [views EXCEPT
                  ![v].attached = "yes",
                  ![v].c = IF @ = NoContainer THEN @ ELSE Adopt(@)]
    /\ UNCHANGED <<readOnly, data, textarea, resizeDebounce, timers,
                   nextTimer, inputs, passVars>>

\* The host removes the wrapper from the document (the block is destroyed).
Detach(v) ==
    /\ views[v].attached = "yes"
    /\ views' = [views EXCEPT
                  ![v].attached = "gone",
                  ![v].c = IF @ = NoContainer THEN @ ELSE [@ EXCEPT !.live = FALSE]]
    /\ UNCHANGED <<readOnly, data, textarea, resizeDebounce, timers,
                   nextTimer, inputs, passVars>>

\* The timer render() set for _executeScripts(c) fires.
TimerExecuteScripts(t) ==
    /\ Runnable(t)
    /\ t.fn = "executeScripts"
    /\ timers' = timers \ {t}
    /\ views' = [views EXCEPT ![t.view].c =
                   StartPass([@ EXCEPT !.ctx = "timer", !.passes = @ + 1])]
    /\ UNCHANGED <<readOnly, data, textarea, resizeDebounce, nextTimer,
                   inputs, passVars>>

\* textarea.scrollHeight + 'px': zero while the textarea has no layout
\* box, else whatever the layout of its text gives.
ScrollHeight(view) ==
    IF view.attached = "yes" /\ ~view.textarea.hidden THEN "fit" ELSE "0px"

\* resize(), on this.textarea
Resize ==
    views' = [views EXCEPT
                ![textarea].textarea.height = ScrollHeight(views[textarea])]

\* A timer set for resize() fires.
TimerResize(t) ==
    /\ Runnable(t)
    /\ t.fn = "resize"
    /\ timers' = timers \ {t}
    /\ Resize
    /\ UNCHANGED <<readOnly, data, textarea, resizeDebounce, nextTimer,
                   inputs, passVars>>

\* An onInput that sets its timer without clearing the one before.
OnInputNoClear ==
    /\ timers' = timers \cup
                   {Timer(nextTimer, "resize", "onInput", textarea, debounceTime)}
    /\ resizeDebounce' = nextTimer
    /\ nextTimer' = nextTimer + 1

\* onInput(): clearTimeout of a timer that has fired changes nothing.
OnInput ==
    /\ timers' = {u \in timers : ~(resizeDebounce # 0 /\ u.id = resizeDebounce)}
                   \cup {Timer(nextTimer, "resize", "onInput", textarea,
                               debounceTime)}
    /\ resizeDebounce' = nextTimer
    /\ nextTimer' = nextTimer + 1

\* An input listener that also stores the edited text in data.html.
InputStores(v, s) ==
    /\ inputs < MaxInputs
    /\ views[v].attached = "yes"
    /\ ~views[v].textarea.disabled
    /\ inputs' = inputs + 1
    /\ views' = [views EXCEPT ![v].textarea.raw = s,
                              ![v].textarea.dirty = TRUE]
    /\ data' = [html |-> Str(s)]
    /\ IF views[v].textarea.listener
       THEN OnInput
       ELSE UNCHANGED <<timers, resizeDebounce, nextTimer>>
    /\ UNCHANGED <<readOnly, textarea, passVars>>

\* The user edits the textarea of view v: its raw value becomes s, and the
\* input event runs the listener render() added.
Input(v, s) ==
    /\ inputs < MaxInputs
    /\ views[v].attached = "yes"
    /\ ~views[v].textarea.disabled
    /\ inputs' = inputs + 1
    /\ views' = [views EXCEPT ![v].textarea.raw = s,
                              ![v].textarea.dirty = TRUE]
    /\ IF views[v].textarea.listener
       THEN OnInput
       ELSE UNCHANGED <<timers, resizeDebounce, nextTimer>>
    /\ UNCHANGED <<readOnly, data, textarea, passVars>>

\* A save that returns the stored markup.
SaveStored(view) == [html |-> data.html]

\* What save(rawToolsWrapper) returns for the wrapper of a view: the value
\* of the wrapper's first textarea, which is the one render() appended
\* before the sub-node.
SaveResult(view) == [html |-> Str(ApiValue(view.textarea.raw))]

\* save(rawToolsWrapper) on the wrapper of view v: it reads, and changes
\* nothing.
Save(v) ==
    /\ v \in DOMAIN views
    /\ UNCHANGED vars

\* The load event of replacement n in the sub-node of view v.
ToolOnLoad(v, n) ==
    /\ n \in views[v].c.pending
    /\ GetAttribute(views[v].c.nodes[n].attrs, "src") # ""
    /\ views' = [views EXCEPT ![v].c =
                   [DeliverLoad([@ EXCEPT !.ctx = "eventloop"], n)
                      EXCEPT !.loaded = @ \cup {n}]]
    /\ UNCHANGED <<readOnly, data, textarea, resizeDebounce, timers,
                   nextTimer, inputs, passVars>>

\* The error event of replacement n in the sub-node of view v.
ToolOnError(v, n) ==
    /\ n \in views[v].c.pending
    /\ views' = [views EXCEPT ![v].c =
                   [DeliverError([@ EXCEPT !.ctx = "eventloop"], n)
                      EXCEPT !.errored = @ \cup {n}]]
    /\ UNCHANGED <<readOnly, data, textarea, resizeDebounce, timers,
                   nextTimer, inputs, passVars>>

\* The tool as constructed, nothing rendered.
ToolInit ==
    /\ \E d \in DataInputs, ro \in BOOLEAN : Constructor(d, ro)
    /\ views = << >>
    /\ timers = {}
    /\ nextTimer = 1
    /\ inputs = 0
    /\ PassInit

HostAttach == \E v \in 1..Len(views) : Attach(v)

HostDetach == \E v \in 1..Len(views) : Detach(v)

FireExecuteScripts == \E t \in timers : TimerExecuteScripts(t)

FireResize == \E t \in timers : TimerResize(t)

UserInput == \E v \in 1..Len(views), s \in Edits : Input(v, s)

HostSave == \E v \in 1..Len(views) : Save(v)

ToolLoad == \E v \in 1..Len(views) : \E n \in views[v].c.pending : ToolOnLoad(v, n)

ToolError == \E v \in 1..Len(views) : \E n \in views[v].c.pending : ToolOnError(v, n)

ToolNext ==
    \/ Render
    \/ HostAttach
    \/ HostDetach
    \/ FireExecuteScripts
    \/ FireResize
    \/ UserInput
    \/ HostSave
    \/ ToolLoad
    \/ ToolError

ToolSpec == ToolInit /\ [][ToolNext]_vars

\* ============================================================ properties
\* Number of scripts the current pass collected.
N == Len(scripts)

\* The positions logged by the current pass, in the order they ran.
PassLog == log

\* The members of a set of numbers, in ascending order.
RECURSIVE Ascending(_)
Ascending(S) ==
    IF S = {} THEN << >>
    ELSE LET m == CHOOSE x \in S : \A y \in S : x <= y
         IN  <<m>> \o Ascending(S \ {m})

UpTo(n) == [i \in 1..n |-> i]

IsPrefix(s, t) == Len(s) <= Len(t) /\ \A i \in 1..Len(s) : s[i] = t[i]

HasSrcAttr(n) == HasAttribute(nodes[n].attrs, "src")

\* Whether the event of replacement n has been delivered.
Signalled(n) == n \in loaded \cup errored

\* Positions of the current pass whose replacement has run: the ones
\* without a src attribute, and the external ones whose load succeeded.
Executed ==
    {i \in 1..Len(repl) : ~HasSrcAttr(repl[i]) \/ repl[i] \in loaded}

\* A pass has been started (and is suspended, done, or ended by an error).
Started == pc \in {"waiting", "done", "thrown"}

\* Replacements the pass is suspended on.
Awaiting == {n \in pending : nodes[n].onload # NoHandler}

\* ---- C1 as stated: the log of a completed pass is [1..N] whatever the
\* load / error outcomes, and the log is a prefix of [1..N] in every state.
C1_LogIsOneToN ==
    /\ pc = "done" => PassLog = UpTo(N)
    /\ Started => IsPrefix(PassLog, UpTo(N))

\* ---- C1 (amended): in every state of a pass the log lists, in ascending
\* document order and each once, exactly the scripts that have run so far:
\* the swapped-in scripts without a src attribute and the external ones
\* whose load succeeded. A script whose load failed never runs, so the log
\* of a completed pass is [1..N] without the failed positions, and is
\* [1..N] itself when no load failed.
C1_LogInDocumentOrder ==
    Started =>
      /\ PassLog = Ascending(Executed)
      /\ (pc = "done" /\ Executed = 1..N) => PassLog = UpTo(N)

\* A completed pass of three or more scripts in which one external script
\* loaded and another failed.
C1_Witness ==
    /\ pc = "done"
    /\ N >= 3
    /\ \E i, j \in 1..N : repl[i] \in loaded /\ repl[j] \in errored
    /\ Len(PassLog) = N - 1

\* ---- C2: runNext is invoked with 0, 1, 2, ... each once and in order; at
\* most one replacement awaits its load / error signal; while the pass
\* waits, the awaited replacement is the last one inserted, and every
\* replacement before the last has completed (inline, or signalled).
C2_OneAtATime ==
    /\ calls = [i \in 1..Len(calls) |-> i - 1]
    /\ Len(calls) <= N + 1
    /\ Cardinality(Awaiting) <= 1
    /\ pc = "waiting" => /\ Len(repl) = Len(calls)
                         /\ Awaiting = {repl[Len(repl)]}
    /\ pc = "done" => Len(calls) = N + 1 /\ Awaiting = {}
    /\ \A i \in 1..Len(repl) :
         (i < Len(repl) \/ pc = "done") =>
           \/ SrcProperty(nodes[repl[i]].attrs) = ""
           \/ Signalled(repl[i])

\* The pass waits on its third script after waiting on an earlier one.
C2_Witness ==
    /\ pc = "waiting"
    /\ Len(calls) = 3
    /\ \E i \in 1..2 : Signalled(repl[i]) /\ nodes[repl[i]].onload # NoHandler

\* ---- C3: once the load of the replacement at index i has failed,
\* runNext(i + 1) has been invoked, no index was run twice (no retry: one
\* replacement per descriptor), no error state was entered, and a pass that
\* is done has swapped every descriptor, the ones after the failure too.
C3_FailureAdvances ==
    /\ \A i \in 1..Len(repl) :
         repl[i] \in errored => \E c \in 1..Len(calls) : calls[c] = i
    /\ \A c, d \in 1..Len(calls) : calls[c] = calls[d] => c = d
    /\ Len(repl) <= N
    /\ \A i, j \in 1..Len(repl) : repl[i] = repl[j] => i = j
    /\ pc # "thrown" /\ err = "none"
    /\ pc = "done" => Len(repl) = N

\* A completed pass in which an external script at a position before the
\* last failed to load and had its error handler advance the pass.
C3_Witness ==
    /\ pc = "done"
    /\ \E i \in 1..(N - 1) :
         /\ repl[i] \in errored
         /\ nodes[repl[i]].onerror = <<i>>
         /\ GetAttribute(nodes[repl[i]].attrs, "src") # ""

\* ---- C4: with pending events eventually delivered, every started pass
\* reaches Done: runNext was last invoked with index N and every
\* descriptor was swapped.
C4_PassTerminates ==
    Started ~>
      (pc = "done" /\ Len(repl) = N /\ calls[Len(calls)] = N)

\* A pass that had to wait for two external scripts and is done.
C4_Witness ==
    /\ pc = "done"
    /\ passNo = 1
    /\ Cardinality({i \in 1..N : nodes[repl[i]].onload # NoHandler}) >= 2

\* ---- C5 as stated: no TypeError ever leaves the pass, whatever the
\* scripts it runs do to the container.
C5_NeverThrows == err = "none" /\ pc # "thrown"

\* ---- C6: every replacement carries the original's attribute list (same
\* names, same values, same order, nothing added or dropped) and the
\* original's text.
C6_AttributeFidelity ==
    \A i \in 1..Len(repl) :
      /\ nodes[repl[i]].attrs = nodes[scripts[i]].attrs
      /\ Range(nodes[repl[i]].attrs) = Range(nodes[scripts[i]].attrs)
      /\ nodes[repl[i]].text = nodes[scripts[i]].text

\* A replacement carrying src, defer and an event-handler attribute, next
\* to one carrying the two data attributes.
C6_Witness ==
    \E i, j \in 1..Len(repl) :
      /\ Len(nodes[repl[i]].attrs) = 3
      /\ HasAttribute(nodes[repl[i]].attrs, "onload")
      /\ HasSrcAttr(repl[i])
      /\ HasAttribute(nodes[repl[j]].attrs, "data-y")

\* Whether runNext(i) has been invoked in the current pass.
Invoked(i) == \E c \in 1..Len(calls) : calls[c] = i

\* ---- C7: a script with a src attribute, inline text or not, keeps its
\* text on the replacement and is handled on the external branch: the pass
\* advances past it only once its load or error signal has fired, and
\* until then the pass waits on it; a script without a src attribute
\* advances at once after the swap.
C7_SrcAttributeWaits ==
    \A i \in 1..Len(repl) :
      IF HasSrcAttr(repl[i])
      THEN /\ nodes[repl[i]].text = nodes[scripts[i]].text
           /\ Invoked(i) => Signalled(repl[i])
           /\ ~Signalled(repl[i]) => pc = "waiting" /\ i = Len(repl)
      ELSE Invoked(i)

\* The pass waits on a script that has both a src and inline text, after
\* having advanced at once past an inline script.
C7_Witness ==
    /\ pc = "waiting"
    /\ Len(repl) >= 2
    /\ nodes[repl[Len(repl)]].text = "ignored"
    /\ HasSrcAttr(repl[Len(repl)])
    /\ \E i \in 1..(Len(repl) - 1) : ~HasSrcAttr(repl[i])

\* The tree below the child list s, with every script element reduced to
\* an anonymous mark: what a pass must leave as it found it.
RECURSIVE Shape(_, _, _)
Shape(k, nd, s) ==
    [i \in 1..Len(s) |->
       IF nd[s[i]].tag = "script"
       THEN [tag |-> "script", id |-> container, sub |-> << >>]
       ELSE [tag |-> nd[s[i]].tag, id |-> s[i],
             sub |-> IF s[i] \in DOMAIN k THEN Shape(k, nd, k[s[i]]) ELSE << >>]]

\* The script elements of the markup as parsed.
ParsedScripts == {n \in DOMAIN initial.nodes : initial.nodes[n].tag = "script"}

\* ---- C8: in every state of a pass the container's tree is the parsed
\* tree with scripts standing where scripts stood: the non-script nodes,
\* their content and their order are unchanged, and the scripts in
\* document order are the replacements of the descriptors processed so far
\* followed by the originals not yet processed, so each replacement has its
\* original's parent and its original's neighbours; a replaced original is
\* out of the tree.
C8_SamePosition ==
    Started =>
      /\ Shape(kids, nodes, kids[container])
           = Shape(initial.kids, initial.nodes, initial.kids[container])
      /\ DOMAIN kids = DOMAIN initial.kids
      /\ \A n \in DOMAIN initial.nodes \ ParsedScripts :
           nodes[n] = initial.nodes[n]
      /\ QuerySelectorAll(kids, nodes, container)
           = [i \in 1..N |-> IF i <= Len(repl) THEN repl[i] ELSE scripts[i]]
      /\ \A i \in 1..Len(repl) : Parents(kids, scripts[i]) = {}

\* A replacement stands between two siblings while a later script, inside
\* a div, is still the original.
C8_Witness ==
    /\ pc = "waiting"
    /\ Len(kids[container]) >= 3
    /\ kids[container][2] \in Range(repl)
    /\ \E d \in DOMAIN kids \ {container} : kids[d][1] \in Range(scripts)

\* ---- C9: on a container without script elements _executeScripts changes
\* nothing: same tree, same nodes, no element created, nothing run, no
\* event awaited, and the pass is done at once.
C9_NoScriptsNoOp ==
    (passNo >= 1 /\ ParsedScripts = {}) =>
      /\ pc = "done"
      /\ kids = initial.kids
      /\ nodes = initial.nodes
      /\ nextId = 2 * Len(initial.kids[container]) + 1
      /\ scripts = << >> /\ repl = << >> /\ calls = <<0>>
      /\ log = << >> /\ earlier = 0
      /\ pending = {} /\ loaded = {} /\ errored = {}
      /\ err = "none"

\* A pass has run on a container holding two paragraphs and no script.
C9_Witness ==
    /\ passNo >= 1
    /\ ParsedScripts = {}
    /\ Len(kids[container]) = 2

\* Whether no script of the parsed markup has a src attribute.
AllInline ==
    \A n \in ParsedScripts : ~HasAttribute(initial.nodes[n].attrs, "src")

\* ---- C10: on a container of inline scripts only, every call in a
\* sequence of calls is a full pass: it ends done and without error, runs
\* every script once in document order, and adds N executions to the ones
\* of the calls before it, so two calls make 2*N executions.
C10_NotIdempotent ==
    (AllInline /\ passNo >= 1) =>
      /\ pc = "done" /\ err = "none"
      /\ N = Cardinality(ParsedScripts)
      /\ PassLog = UpTo(N)
      /\ earlier = (passNo - 1) * Cardinality(ParsedScripts)
      /\ earlier + Len(log) = passNo * Cardinality(ParsedScripts)

\* Two calls were made on a container of three inline scripts.
C10_Witness ==
    /\ passNo = 2
    /\ AllInline
    /\ Cardinality(ParsedScripts) = 3
    /\ earlier + Len(log) = 6

\* ------------------------------------------------- properties of the tool
\* The pending timers among ts that are set to run _executeScripts on the
\* sub-node of view v.
ExecTimers(ts, v) == {t \in ts : t.fn = "executeScripts" /\ t.view = v}

\* The tree the markup parser builds of the stored markup.
StoredTree == ParseMarkup(Tokens(ToDOMString(data.html)))

\* ---- C11: in read-only mode every view has had exactly one pass
\* scheduled on its sub-node: either its timer is pending or the pass was
\* started, once. Until the pass starts the sub-node holds the parsed
\* stored markup and nothing has run, nothing is awaited and nothing was
\* replaced. A view that render() has just returned has its pass not
\* started and its timer pending; a pass starts only in a step that takes
\* the view's timer, set with the rendering delay, out of the pending ones.
C11_PassOnlyByTimer ==
    [][readOnly =>
         \A v \in DOMAIN views' :
           LET c == views'[v].c
           IN  /\ Cardinality(ExecTimers(timers', v)) + c.passes = 1
               /\ c.passes = 0 =>
                     /\ c.pc = "idle"
                     /\ c.nodes = StoredTree.nodes /\ c.kids = StoredTree.kids
                     /\ c.log = << >> /\ c.pending = {} /\ c.repl = << >>
               /\ v \notin DOMAIN views =>
                     c.passes = 0 /\ Cardinality(ExecTimers(timers', v)) = 1
               /\ (v \in DOMAIN views /\ views[v].c.passes = 0 /\ c.passes = 1) =>
                     \E t \in ExecTimers(timers, v) :
                       t \notin timers' /\ t.delay = renderingTime]_vars

\* A pass started by its timer is waiting on an external script while the
\* timer of a later view is still pending.
C11_Witness ==
    /\ readOnly
    /\ \E v, w \in DOMAIN views :
         /\ views[v].c.passes = 1
         /\ views[v].c.pc = "waiting"
         /\ views[v].c.log = <<1>>
         /\ views[w].c.passes = 0
         /\ ExecTimers(timers, w) # {}

\* Whether the string has no carriage return.
NoCR(chars) == \A i \in 1..Len(chars) : chars[i] # Char("\r")

\* ---- C12 as stated: for a tool constructed with a string, save on a
\* rendered wrapper returns the stored string as long as the textarea was
\* not edited, and the last edited text afterwards.
C12_RoundTrip ==
    data.html.type = "string" =>
      \A v \in DOMAIN views :
        SaveResult(views[v]) =
          [html |-> IF views[v].textarea.dirty
                    THEN Str(views[v].textarea.raw)
                    ELSE data.html]

\* ---- C12 (amended): save returns { html: v } with v the value of the
\* wrapper's own textarea; for a tool constructed with a string h, save on
\* a wrapper whose textarea was not edited returns h with every CR LF pair
\* and every other CR replaced by LF, which is h itself when h has no
\* carriage return; after edits it returns the last edited text.
C12_RoundTripNormalised ==
    data.html.type = "string" =>
      \A v \in DOMAIN views :
        /\ DOMAIN SaveResult(views[v]) = {"html"}
        /\ SaveResult(views[v]).html.type = "string"
        /\ views[v].textarea.dirty =>
              SaveResult(views[v]).html = Str(views[v].textarea.raw)
        /\ ~views[v].textarea.dirty =>
              /\ SaveResult(views[v]).html = Str(ApiValue(data.html.chars))
              /\ NoCR(data.html.chars) => SaveResult(views[v]).html = data.html

\* A tool constructed with "a CR LF b" and rendered twice: save on the
\* wrapper that was edited returns the edit, save on the other returns
\* "a LF b".
C12_Witness ==
    /\ data.html = Str(<<Char("a"), Char("\r"), Char("\n"), Char("b")>>)
    /\ \E v, w \in DOMAIN views :
         /\ views[v].textarea.dirty
         /\ SaveResult(views[v]).html.chars[1] = Char("x")
         /\ Len(SaveResult(views[v]).html.chars) = 3
         /\ ~views[w].textarea.dirty
         /\ SaveResult(views[w]).html = Str(<<Char("a"), Char("\n"), Char("b")>>)

\* ---- C13 as stated: the stored markup is a string in every state.
C13_AlwaysString == data.html.type = "string"

\* ---- C14: once the host has removed a wrapper from the document, every
\* step that acts on its sub-node (a load or error callback of a script
\* the pass was waiting on, or the start of the pass by its timer) raises
\* no error and is a no-op apart from the swaps: each remaining descriptor
\* it advances to is swapped for a replacement that does not start, no new
\* load is awaited, and nothing runs but the resource whose load event is
\* the one delivered.
C14_DetachedCallbackNoOp ==
    [][\A v \in DOMAIN views :
         (views[v].attached = "gone" /\ views'[v].c # views[v].c) =>
           LET c == views[v].c
               d == views'[v].c
           IN  /\ d.err = "none" /\ d.pc # "thrown"
               /\ d.pending \subseteq c.pending
               /\ IsPrefix(c.repl, d.repl)
               /\ \A i \in (Len(c.repl) + 1)..Len(d.repl) :
                     /\ ~d.nodes[d.repl[i]].started
                     /\ Parents(d.kids, d.repl[i]) # {}
                     /\ Parents(d.kids, d.scripts[i]) = {}
               /\ IF d.loaded # c.loaded
                  THEN Len(d.log) = Len(c.log) + 1
                  ELSE d.log = c.log]_vars

\* The wrapper was removed while its pass waited on an external script;
\* the script's callback has since fired and swapped a later descriptor,
\* whose replacement has not started.
C14_Witness ==
    \E v \in DOMAIN views :
      LET c == views[v].c
      IN  /\ views[v].attached = "gone"
          /\ c.err = "none"
          /\ \E i, j \in 1..Len(c.repl) :
               /\ i < j
               /\ c.repl[i] \in c.loaded \cup c.errored
               /\ c.nodes[c.repl[i]].started
               /\ ~c.nodes[c.repl[j]].started

\* ---- C15 as stated: no pass has started on a sub-node whose wrapper the
\* host has not yet put into the document.
C15_StartsAttached ==
    \A v \in DOMAIN views :
      views[v].c.passes >= 1 => views[v].attached # "no"

\* The pending timers among ts that are set to run resize().
ResizeTimers(ts) == {t \in ts : t.fn = "resize"}

\* Those of them that onInput() set.
Debounced(ts) == {t \in ResizeTimers(ts) : t.by = "onInput"}

\* ---- C16 as stated: at most one timer for resize() is pending.
C16_OnePendingResize == Cardinality(ResizeTimers(timers)) <= 1

\* ---- C16 (amended): at most one resize timer set by an input event is
\* pending (each render() sets a resize timer of its own, which input
\* events do not cancel and which may be pending besides); the pending one
\* is the one this.resizeDebounce names and has the debounce delay. An
\* input event cancels the pending one and sets a new one, so a burst of
\* input events leaves exactly one, set by the last of them; no other step
\* sets one; and the step that fires it computes the resize and leaves
\* none pending.
C16_DebouncedResize ==
    [][/\ Cardinality(Debounced(timers')) <= 1
       /\ \A t \in Debounced(timers') :
            t.id = resizeDebounce' /\ t.delay = debounceTime
       /\ inputs' = inputs + 1 =>
            /\ Debounced(timers') \cap Debounced(timers) = {}
            /\ \E t \in Debounced(timers') : t.id = nextTimer
            /\ ResizeTimers(timers') \ Debounced(timers')
                 = ResizeTimers(timers) \ Debounced(timers)
       /\ inputs' = inputs => Debounced(timers') \subseteq Debounced(timers)
       /\ (inputs' = inputs /\ Debounced(timers') # Debounced(timers)) =>
            /\ Debounced(timers') = {}
            /\ views'[textarea].textarea.height # NoHeight]_vars

\* Two input events with no timer fired in between: one debounced resize
\* is pending, next to the resize timer render() set.
C16_Witness ==
    /\ inputs = 2
    /\ Len(views) = 1
    /\ Cardinality(Debounced(timers)) = 1
    /\ Cardinality(ResizeTimers(timers)) = 2
    /\ nextTimer = 4

\* ---- C17 as stated: for a tool constructed with a string, once the user
\* has edited the tool's textarea the stored markup is the textarea's
\* text, which is what save returns.
C17_StoredFollowsEdits ==
    (data.html.type = "string" /\ textarea # 0
       /\ views[textarea].textarea.dirty) =>
      data.html = SaveResult(views[textarea]).html

\* ---- C17 (amended): no step changes the stored markup: after any
\* sequence of input events data.html is what the constructor stored. An
\* input event changes only the text of the textarea it is on (which save
\* returns) and the debounce timer; a view that a later render() adds shows
\* the stored markup, not the edited text.
C17_StoredNeverEdited ==
    [][/\ data' = data
       /\ inputs' = inputs + 1 =>
            /\ Len(views') = Len(views)
            /\ Cardinality({v \in DOMAIN views : views'[v] # views[v]}) <= 1
            /\ \A v \in DOMAIN views :
                 views'[v] # views[v] =>
                   /\ views'[v].textarea.dirty
                   /\ SaveResult(views'[v]).html = Str(views'[v].textarea.raw)
                   /\ views'[v] = [views[v] EXCEPT
                                     !.textarea.raw = views'[v].textarea.raw,
                                     !.textarea.dirty = TRUE]
       /\ \A v \in DOMAIN views' \ DOMAIN views :
            /\ ~views'[v].textarea.dirty
            /\ views'[v].textarea.text = ToDOMString(data.html)
            /\ views'[v].textarea.raw = ToDOMString(data.html)]_vars

\* The first view was edited, and a second view rendered afterwards shows
\* the stored markup, which the edit has not changed.
C17_Witness ==
    /\ Len(views) = 2
    /\ views[1].textarea.dirty
    /\ ~views[2].textarea.dirty
    /\ nextTimer = 4
    /\ inputs = 1
    /\ SaveResult(views[1]).html # data.html
    /\ views[2].textarea.raw = ToDOMString(data.html)

\* Whether the string holds the markup of a script element.
HasScriptMarkup(chars) == \E i \in 1..Len(chars) : chars[i].tag = "script"

\* ---- C18: in a tool constructed with readOnly false no view has a
\* sub-node: the stored markup is parsed into no tree, no element is
\* created from it, no pass is scheduled or started, no script has run and
\* no load is awaited; the only timers are resize timers; and the stored
\* markup is in the view only as the text of its textarea, which is
\* enabled and takes the input events.
C18_EditModeInert ==
    ~readOnly =>
      /\ \A t \in timers : t.fn = "resize"
      /\ \A v \in DOMAIN views :
           /\ views[v].c = NoContainer
           /\ views[v].c.passes = 0 /\ views[v].c.pc = "none"
           /\ DOMAIN views[v].c.nodes = {container}
           /\ views[v].c.kids[container] = << >>
           /\ views[v].c.log = << >> /\ views[v].c.pending = {}
           /\ views[v].c.repl = << >>
           /\ ExecTimers(timers, v) = {}
           /\ views[v].textarea.text = ToDOMString(data.html)
           /\ ~views[v].textarea.disabled /\ views[v].textarea.listener

\* An edit-mode tool whose stored markup and whose edited text both hold
\* script markup, after two render() calls, two input events and a fired
\* resize timer.
C18_Witness ==
    /\ ~readOnly
    /\ data.html.type = "string" /\ HasScriptMarkup(data.html.chars)
    /\ Len(views) = 2
    /\ inputs = 2
    /\ \E v \in DOMAIN views :
         /\ HasScriptMarkup(views[v].textarea.raw)
         /\ views[v].textarea.dirty
         /\ views[v].textarea.height # NoHeight

\* ---- C19: in read-only mode every render() adds a view with a sub-node
\* of its own and sets one timer, for a pass on that sub-node, leaving
\* the sub-nodes of the other views as they are; no sub-node ever has a
\* second pass started on it; every step of a pass (its start, a load or
\* an error callback) changes the sub-node of one view only; and a pass
\* handles each script element of its sub-node once: the elements it
\* collected are distinct elements of its own sub-node, each index is run
\* once, and each replacement is a new element.
C19_OnePassPerNode ==
    [][readOnly =>
         /\ \A v \in DOMAIN views' :
              LET c == views'[v].c
              IN  /\ c.passes <= 1
                  /\ Cardinality(ExecTimers(timers', v)) <= 1 - c.passes
                  /\ Range(c.scripts) \subseteq DOMAIN c.nodes
                  /\ \A i, j \in 1..Len(c.scripts) :
                       c.scripts[i] = c.scripts[j] => i = j
                  /\ c.calls = [i \in 1..Len(c.calls) |-> i - 1]
                  /\ \A i, j \in 1..Len(c.repl) :
                       c.repl[i] = c.repl[j] => i = j
                  /\ Range(c.repl) \cap Range(c.scripts) = {}
         /\ \A v \in DOMAIN views' \ DOMAIN views :
              /\ \E t \in ExecTimers(timers', v) :
                   {u \in timers' \ timers : u.fn = "executeScripts"} = {t}
              /\ \A w \in DOMAIN views : views'[w] = views[w]
         /\ \A v, w \in DOMAIN views :
              (views'[v].c.calls # views[v].c.calls /\ v # w) =>
                views'[w].c = views[w].c]_vars

\* The passes of two views are in flight at once, each waiting on the
\* external script of its own sub-node.
C19_Witness ==
    /\ readOnly
    /\ \E v, w \in DOMAIN views :
         /\ v # w
         /\ views[v].c.pc = "waiting" /\ views[v].c.pending # {}
         /\ views[w].c.pc = "waiting" /\ views[w].c.pending # {}
         /\ Len(views[v].c.repl) # Len(views[w].c.repl)

\* How often runNext(i) was invoked in the pass c.
Advances(c, i) == Cardinality({k \in 1..Len(c.calls) : c.calls[k] = i})

\* ---- C20: every replacement with a src attribute carries both handlers,
\* each advancing to the index after its own, from the moment it is in
\* the tree, started or not; a replacement whose load or error event is
\* still to come is the one the pass waits on, so each event finds its
\* handler; and the step that delivers either event to the replacement at
\* position i invokes runNext(i) (0-based: the next index), which had not
\* been invoked before and is invoked once, and leaves no further event of
\* that replacement to come.
C20_NoLostSignal ==
    [][\A v \in DOMAIN views' :
         LET d == views'[v].c
         IN  /\ \A i \in 1..Len(d.repl) :
                  HasAttribute(d.nodes[d.repl[i]].attrs, "src") =>
                    /\ d.nodes[d.repl[i]].onload = <<i>>
                    /\ d.nodes[d.repl[i]].onerror = <<i>>
             /\ \A n \in d.pending :
                  /\ d.pc = "waiting"
                  /\ n = d.repl[Len(d.repl)]
                  /\ d.nodes[n].onload # NoHandler
                  /\ d.nodes[n].onerror # NoHandler
             /\ v \in DOMAIN views =>
                  \A i \in 1..Len(views[v].c.repl) :
                    LET c == views[v].c
                    IN  (c.repl[i] \in c.pending /\ c.repl[i] \notin d.pending) =>
                          /\ Advances(c, i) = 0
                          /\ Advances(d, i) = 1
                          /\ d.calls[Len(c.calls) + 1] = i
                          /\ c.repl[i] \in d.loaded \cup d.errored]_vars

\* A pass is done after the load event of one external script and the
\* error event of another each advanced it.
C20_Witness ==
    \E v \in DOMAIN views :
      LET c == views[v].c
      IN  /\ c.pc = "done"
          /\ \E i, j \in 1..Len(c.repl) :
               /\ c.repl[i] \in c.loaded
               /\ c.repl[j] \in c.errored
               /\ Advances(c, i) = 1
               /\ Advances(c, j) = 1

====
